---- MODULE Spec2Model ----
(***************************************************************************)
(* Server side of the CDP transport contract (src/src/server.rs): the      *)
(* Encoded Command and its layered deserialization, the single-use         *)
(* Responder with its destructor fallback, and the cloneable Event Sender, *)
(* all writing to one outbound channel per client session.                 *)
(***************************************************************************)
EXTENDS Integers, Sequences, FiniteSets, TLC

\* ---------------------------------------------------------------- bounds
MaxCmds == 2        \* commands in flight on the session
MaxEvents == 3      \* events pushed in total
MaxClones == 2      \* Event Sender handles (the original and its clones)
MaxCandidates == 3  \* candidate command types offered to one Encoded Command

Cmds == 1..MaxCmds
Events == 1..MaxEvents
Handles == 1..MaxClones
Sessions == {"s1", "s2"}

\* ------------------------------------------------------------ plain data
Methods == {"respond", "command_not_found", "invalid_params", "server_error", "internal_error"}
Msgs == {"missing field: url", "The URL specified is invalid."}
\* Values handed to respond: the second one has no serialization.
Values == {"frame_id:7", "unserializable"}
NoArg == ""
Parts == <<"head", "body">>

\* The request identifier the client put on command c.
ReqId(c) == 10 * c

\* serde's Serialize for the value handed to respond: may fail.
Encode(v) ==
  IF v = "unserializable"
    THEN [ok |-> FALSE, payload |-> NoArg]
    ELSE [ok |-> TRUE, payload |-> "{" \o v \o "}"]

\* The argument each method accepts.
ArgsOf(m) ==
  CASE m = "respond" -> Values
    [] m \in {"invalid_params", "server_error"} -> Msgs
    [] OTHER -> {NoArg}

\* Mutant of OutcomeOf: the diagnostic message is not carried along.
OutcomeWithoutMessage(m, payload) ==
  CASE m = "respond" -> [kind |-> "Success", data |-> payload]
    [] m = "command_not_found" -> [kind |-> "CommandNotFound", data |-> NoArg]
    [] m = "invalid_params" -> [kind |-> "InvalidParams", data |-> NoArg]
    [] m = "server_error" -> [kind |-> "ServerError", data |-> NoArg]
    [] OTHER -> [kind |-> "InternalError", data |-> NoArg]

\* The outcome an explicit method dispatches (respond: of the encoded payload).
OutcomeOf(m, payload) ==
  CASE m = "respond" -> [kind |-> "Success", data |-> payload]
    [] m = "command_not_found" -> [kind |-> "CommandNotFound", data |-> NoArg]
    [] m = "invalid_params" -> [kind |-> "InvalidParams", data |-> payload]
    [] m = "server_error" -> [kind |-> "ServerError", data |-> payload]
    [] OTHER -> [kind |-> "InternalError", data |-> NoArg]

\* Mutant of DropOutcome: teardown reports the command as not found.
WrongDropOutcome == [kind |-> "CommandNotFound", data |-> NoArg]

\* The outcome teardown dispatches for a Responder that never dispatched.
DropOutcome == [kind |-> "InternalError", data |-> NoArg]

ResponseFrame(id, out) ==
  [type |-> "response", id |-> id, kind |-> out.kind, data |-> out.data, ev |-> 0]

EventFrame(e) ==
  [type |-> "event", id |-> 0, kind |-> "event", data |-> NoArg, ev |-> e]

Chunk(f, i) == [frame |-> f, part |-> Parts[i]]

\* What respond returns when encoding failed and it dispatched nothing itself.
RespondEncodeFailureResult == "Ok"

VARIABLES
  session,   \* the client session this transport serves
  wire,      \* per session: the chunks physically written, in order
  lock,      \* the writer holding the outbound channel, or Free
  resp,      \* per command: its Responder
  sends,     \* per command: the dispatch attempts made for its Responder
  ret,       \* per command: what the outcome method returned to the handler
  called,    \* per command: the outcome method the handler called
  sender,    \* per handle: the Event Sender
  nextEv,    \* the next event to push
  evRet,     \* per event: what send_event returned
  evFrom,    \* per event: the handle it was sent from
  dCmd,      \* dispatch: the Encoded Command as currently held by the caller
  dOrig,     \* dispatch: the Encoded Command as received
  dCands,    \* dispatch: the candidate types, in the order offered
  dTried,    \* dispatch: the candidates tried so far, in order
  dResult,   \* dispatch: the result of the last deserialize_command
  issued,    \* the observed sends (of responses and events), in the order issued
  priorDone  \* per observed send: the sends that had returned when it was issued

respVars == <<resp, sends, ret, called>>
evVars == <<sender, nextEv, evRet, evFrom>>
chanVars == <<session, wire, lock>>
dispVars == <<dCmd, dOrig, dCands, dTried, dResult>>
histVars == <<issued, priorDone>>
vars == <<session, wire, lock, resp, sends, ret, called, sender, nextEv, evRet, evFrom,
          dCmd, dOrig, dCands, dTried, dResult, issued, priorDone>>

Free == <<"free", 0>>
RespWriter(c) == <<"resp", c>>
EvWriter(h) == <<"ev", h>>

\* The sends of the session: the response of command c, the push of event e.
RespSend(c) == <<"response", c>>
EvSend(e) == <<"event", e>>
SendIds == {RespSend(c) : c \in Cmds} \cup {EvSend(e) : e \in Events}
NoCall == [m |-> "none", arg |-> NoArg]
NoOutcome == [kind |-> "none", data |-> NoArg]

\* ------------------------------------------------------ outbound channel
\* Mutant of Acquirable: writers do not wait for one another.
Unserialized(w) == TRUE

\* The transport serializes physical writes: one writer at a time.
Acquirable(w) == lock = Free

\* Mutant of WriteHead: the newest frame is put in front of the older ones.
WriteHeadFirst(w, s, f) ==
  /\ wire' = [wire EXCEPT ![s] = <<Chunk(f, 1)>> \o @]
  /\ lock' = w

\* A writer takes the channel and writes the first part of its frame.
WriteHead(w, s, f) ==
  /\ wire' = [wire EXCEPT ![s] = Append(@, Chunk(f, 1))]
  /\ lock' = w

\* The writer writes the rest of its frame and gives the channel back.
WriteBody(w, s, f) ==
  /\ wire' = [wire EXCEPT ![s] = Append(@, Chunk(f, Len(Parts)))]
  /\ lock' = Free

\* The sends that have returned to their caller, done or failed.
Concluded ==
  {RespSend(c) : c \in {d \in Cmds : Len(sends[d]) >= 1 /\ resp[d].pc \in {"drop", "destroyed"}}}
    \cup {EvSend(e) : e \in {f \in Events : evRet[f] # "none"}}

\* The sends whose order of issue is observed.
ObservedSends == DOMAIN priorDone

\* A caller issues a send: a response method or teardown goes on to
\* dispatch, or send_event is called.
IssueSend(a) ==
  IF a \in ObservedSends
    THEN /\ issued' = Append(issued, a)
         /\ priorDone' = [priorDone EXCEPT ![a] = Concluded]
    ELSE UNCHANGED histVars

\* ------------------------------------------------------------- Responder
AbsentResponder ==
  [pc |-> "absent", id |-> 0, session |-> "s1", dispatched |-> FALSE,
   out |-> NoOutcome, inDrop |-> FALSE]

\* Mutant of NewResponder: the Responder is not bound to its command.
UnboundResponder(c, s) ==
  [pc |-> "pending", id |-> 0, session |-> s, dispatched |-> FALSE,
   out |-> NoOutcome, inDrop |-> FALSE]

\* Mutant of NewResponder: every Responder answers the session's first request.
FirstIdResponder(c, s) ==
  [pc |-> "pending", id |-> ReqId(1), session |-> s, dispatched |-> FALSE,
   out |-> NoOutcome, inDrop |-> FALSE]

\* A Responder is created bound to the request identifier of its command.
NewResponder(c, s) ==
  [pc |-> "pending", id |-> ReqId(c), session |-> s, dispatched |-> FALSE,
   out |-> NoOutcome, inDrop |-> FALSE]

\* Pending until a dispatch has been attempted, Completed from then on.
StateOf(r) == IF r.dispatched THEN "Completed" ELSE "Pending"

\* Mutants of NeedsFallback: teardown that always, or never, sends the fallback.
AlwaysFallback(r) == TRUE
NeverFallback(r) == FALSE

\* Teardown sends the fallback only if no dispatch was attempted before.
NeedsFallback(r) == ~r.dispatched

\* Mutant of MarksDispatched: only a send that succeeded counts as attempted.
MarksOnSuccess(ok) == ok

\* A dispatch counts as attempted whether the send succeeded or not.
MarksDispatched(ok) == TRUE

\* Mutant of SendResult: the failure of the send is swallowed.
SwallowedResult(ok) == "Ok"

\* What the method's caller gets for a send the method attempted.
SendResult(ok) == IF ok THEN "Ok" ELSE "DispatchError"

CreateResponder(c) ==
  /\ resp[c].pc = "absent"
  /\ \A k \in Cmds : k < c => resp[k].pc # "absent"
  /\ resp' = [resp EXCEPT ![c] = NewResponder(c, session)]
  /\ UNCHANGED <<sends, ret, called, chanVars, evVars, dispVars, histVars>>

\* Mutant of DispatchesItself: respond dispatches although encoding failed.
DispatchesAnyway(e) == TRUE

\* A method dispatches its own outcome only if the encoding succeeded.
DispatchesItself(e) == e.ok

\* The handler calls one of the five outcome methods, which consumes the
\* Responder: respond encodes first, and dispatches nothing if that fails.
CallMethod(c, m, arg) ==
  /\ resp[c].pc = "pending"
  /\ called' = [called EXCEPT ![c] = [m |-> m, arg |-> arg]]
  /\ LET e == IF m = "respond" THEN Encode(arg) ELSE [ok |-> TRUE, payload |-> arg]
     IN IF DispatchesItself(e)
          THEN /\ resp' = [resp EXCEPT ![c].pc = "dispatch",
                                       ![c].out = OutcomeOf(m, e.payload)]
               /\ ret' = ret
               /\ IssueSend(RespSend(c))
          ELSE /\ resp' = [resp EXCEPT ![c].pc = "drop"]
               /\ ret' = [ret EXCEPT ![c] = RespondEncodeFailureResult]
               /\ UNCHANGED histVars
  /\ UNCHANGED <<sends, chanVars, evVars, dispVars>>

\* Where a Responder goes after a send: a method returns the result to its
\* caller and then drops self; teardown discards the result.
AfterSend(c, r, ok) ==
  IF r.inDrop
    THEN /\ resp' = [resp EXCEPT ![c] = [r EXCEPT !.pc = "destroyed"]]
         /\ ret' = ret
    ELSE /\ resp' = [resp EXCEPT ![c] = [r EXCEPT !.pc = "drop"]]
         /\ ret' = [ret EXCEPT ![c] = SendResult(ok)]

\* The send of the outcome starts: it fails, or the frame's head is written.
BeginDispatch(c, ok) ==
  /\ resp[c].pc = "dispatch"
  /\ Acquirable(RespWriter(c))
  /\ sends' = [sends EXCEPT ![c] =
       Append(@, [kind |-> resp[c].out.kind, ok |-> ok, inDrop |-> resp[c].inDrop])]
  /\ LET r == [resp[c] EXCEPT !.dispatched = @ \/ MarksDispatched(ok)]
     IN IF ok
          THEN /\ WriteHead(RespWriter(c), r.session, ResponseFrame(r.id, r.out))
               /\ resp' = [resp EXCEPT ![c] = [r EXCEPT !.pc = "write"]]
               /\ UNCHANGED <<ret, session>>
          ELSE /\ AfterSend(c, r, FALSE)
               /\ UNCHANGED chanVars
  /\ UNCHANGED <<called, evVars, dispVars, histVars>>

FinishDispatch(c) ==
  /\ resp[c].pc = "write"
  /\ WriteBody(RespWriter(c), resp[c].session, ResponseFrame(resp[c].id, resp[c].out))
  /\ AfterSend(c, resp[c], TRUE)
  /\ UNCHANGED <<sends, called, session, evVars, dispVars, histVars>>

\* The Responder's lifetime ends: after a method consumed it, or because the
\* handler let it go without calling any.
Drop(c) ==
  /\ resp[c].pc \in {"pending", "drop"}
  /\ IF NeedsFallback(resp[c])
       THEN /\ resp' = [resp EXCEPT ![c].pc = "dispatch", ![c].inDrop = TRUE,
                                    ![c].out = DropOutcome]
            /\ IssueSend(RespSend(c))
       ELSE /\ resp' = [resp EXCEPT ![c].pc = "destroyed"]
            /\ UNCHANGED histVars
  /\ UNCHANGED <<sends, ret, called, chanVars, evVars, dispVars>>

\* ---------------------------------------------------------- Event Sender
NoSender == [live |-> FALSE, session |-> "s1", pc |-> "idle", ev |-> 0]
NewSender(s) == [live |-> TRUE, session |-> s, pc |-> "idle", ev |-> 0]

\* Mutant of CloneOf: the clone addresses another session.
CloneElsewhere(h) == NewSender(CHOOSE s \in Sessions : s # h.session)

\* Clone: another handle on the same session, with no send in progress.
CloneOf(h) == NewSender(h.session)

Clone(h, h2) ==
  /\ sender[h].live
  /\ ~sender[h2].live
  /\ \A k \in Handles : k < h2 => sender[k].live
  /\ sender' = [sender EXCEPT ![h2] = CloneOf(sender[h])]
  /\ UNCHANGED <<nextEv, evRet, evFrom, chanVars, respVars, dispVars, histVars>>

SendEvent(h, ok) ==
  /\ sender[h].live
  /\ sender[h].pc = "idle"
  /\ nextEv <= MaxEvents
  /\ Acquirable(EvWriter(h))
  /\ nextEv' = nextEv + 1
  /\ evFrom' = [evFrom EXCEPT ![nextEv] = h]
  /\ IssueSend(EvSend(nextEv))
  /\ IF ok
       THEN /\ WriteHead(EvWriter(h), sender[h].session, EventFrame(nextEv))
            /\ sender' = [sender EXCEPT ![h].pc = "write", ![h].ev = nextEv]
            /\ UNCHANGED <<evRet, session>>
       ELSE /\ evRet' = [evRet EXCEPT ![nextEv] = SendResult(FALSE)]
            /\ UNCHANGED <<sender, chanVars>>
  /\ UNCHANGED <<respVars, dispVars>>

FinishEvent(h) ==
  /\ sender[h].live
  /\ sender[h].pc = "write"
  /\ WriteBody(EvWriter(h), sender[h].session, EventFrame(sender[h].ev))
  /\ evRet' = [evRet EXCEPT ![sender[h].ev] = SendResult(TRUE)]
  /\ sender' = [sender EXCEPT ![h].pc = "idle", ![h].ev = 0]
  /\ UNCHANGED <<nextEv, evFrom, session, respVars, dispVars, histVars>>

NoCommand == [name |-> "", payload |-> ""]
NoResult == [tag |-> "none", ok |-> FALSE, ty |-> "", name |-> "", payload |-> ""]

\* ------------------------------------------------------- Encoded Command
Names == {"Page.navigate", "Network.enable", "Foo.bar"}
Payloads == {"{url}", "{}"}
CommandTypes == {"Page", "PageLegacy", "Network"}

\* command_name(): the wire method name, read without consuming the command.
command_name(cmd) == cmd.name

\* The names a candidate command type recognizes.
Recognizes(C, name) ==
  CASE C = "Network" -> name = "Network.enable"
    [] OTHER -> name = "Page.navigate"

\* The candidate type's own decoding of the payload of a name it recognizes:
\* a typed value, or a decode error (Page.navigate requires url).
Decode(C, cmd) ==
  IF cmd.name = "Page.navigate" /\ cmd.payload # "{url}"
    THEN [tag |-> "Ok", ok |-> FALSE, ty |-> C, name |-> cmd.name,
          payload |-> "missing field: url"]
    ELSE [tag |-> "Ok", ok |-> TRUE, ty |-> C, name |-> cmd.name,
          payload |-> IF cmd.payload = "{url}" THEN "url" ELSE ""]

\* Mutant of GiveBack: the command comes back with its payload consumed.
GiveBackEmpty(cmd) ==
  [tag |-> "Err", ok |-> FALSE, ty |-> "", name |-> cmd.name, payload |-> ""]

\* Gives the Encoded Command back, as it is, to the caller.
GiveBack(cmd) ==
  [tag |-> "Err", ok |-> FALSE, ty |-> "", name |-> cmd.name, payload |-> cmd.payload]

\* Mutant of deserialize_command: a decode error counts as a non-match.
deserialize_or_skip(cmd, C) ==
  IF Recognizes(C, command_name(cmd)) /\ Decode(C, cmd).ok
    THEN Decode(C, cmd)
    ELSE GiveBack(cmd)

\* deserialize_command::<C>(self): Ok(decode result) if C recognizes the name,
\* otherwise Err(self).
deserialize_command(cmd, C) ==
  IF Recognizes(C, command_name(cmd)) THEN Decode(C, cmd) ELSE GiveBack(cmd)

\* The caller offers the command to the next candidate type, in the order
\* given, until one claims it; the command moves into the call and comes
\* back only in an Err.
Offer ==
  /\ dResult.tag # "Ok"
  /\ Len(dTried) < Len(dCands)
  /\ LET C == dCands[Len(dTried) + 1]
         r == deserialize_command(dCmd, C)
     IN /\ dTried' = Append(dTried, C)
        /\ dResult' = r
        /\ dCmd' = IF r.tag = "Err"
                     THEN [name |-> r.name, payload |-> r.payload]
                     ELSE NoCommand
  /\ UNCHANGED <<dOrig, dCands, chanVars, respVars, evVars, histVars>>

\* --------------------------------------------------------- specification
DispatchIdle ==
  /\ dCmd = NoCommand
  /\ dOrig = NoCommand
  /\ dCands = <<>>
  /\ dTried = <<>>
  /\ dResult = NoResult

SessionInit ==
  /\ session \in Sessions
  /\ wire = [s \in Sessions |-> <<>>]
  /\ lock = Free
  /\ resp = [c \in Cmds |-> AbsentResponder]
  /\ sends = [c \in Cmds |-> <<>>]
  /\ ret = [c \in Cmds |-> "none"]
  /\ called = [c \in Cmds |-> NoCall]
  /\ sender = [h \in Handles |-> IF h = 1 THEN NewSender(session) ELSE NoSender]
  /\ nextEv = 1
  /\ evRet = [e \in Events |-> "none"]
  /\ evFrom = [e \in Events |-> 0]
  /\ issued = <<>>

\* No order of issue is observed where only Responders are at work.
Init == SessionInit /\ DispatchIdle /\ priorDone = <<>>

\* With the Event Sender at work, the order of issue of every send is observed.
EventInit == SessionInit /\ DispatchIdle /\ priorDone = [a \in SendIds |-> {}]

\* The commands of the session, each answered through its own Responder.
Next ==
  \/ \E c \in Cmds : CreateResponder(c)
  \/ \E c \in Cmds, m \in Methods : \E arg \in ArgsOf(m) : CallMethod(c, m, arg)
  \/ \E c \in Cmds, ok \in BOOLEAN : BeginDispatch(c, ok)
  \/ \E c \in Cmds : FinishDispatch(c)
  \/ \E c \in Cmds : Drop(c)

Spec == Init /\ [][Next]_vars

\* Events pushed from the clones of the Event Sender while the first command
\* of the session is answered on the same channel.
\* Beside the events one command is in flight; it is answered with respond,
\* whose value may or may not encode, so that the response is dispatched by
\* the method or by teardown.
InFlightMethods == {"respond"}

EventNext ==
  \/ \E h, h2 \in Handles : Clone(h, h2)
  \/ \E h \in Handles, ok \in BOOLEAN : SendEvent(h, ok)
  \/ \E h \in Handles : FinishEvent(h)
  \/ CreateResponder(1)
  \/ \E m \in InFlightMethods : \E arg \in ArgsOf(m) : CallMethod(1, m, arg)
  \/ \E ok \in BOOLEAN : BeginDispatch(1, ok)
  \/ FinishDispatch(1)
  \/ Drop(1)

EventSpec == EventInit /\ [][EventNext]_vars

\* One Encoded Command offered to a sequence of candidate command types.
CandidateSeqs == UNION {[1..n -> CommandTypes] : n \in 0..MaxCandidates}

DispatchInit ==
  /\ SessionInit
  /\ dOrig \in [name : Names, payload : Payloads]
  /\ dCmd = dOrig
  /\ dCands \in CandidateSeqs
  /\ dTried = <<>>
  /\ dResult = NoResult
  /\ priorDone = <<>>

DispatchNext == Offer

DispatchSpec == DispatchInit /\ [][DispatchNext]_vars

\* ------------------------------------------------------------ wire views
\* What the client of the session reads.
ClientWire == wire[session]

\* A whole frame starts at i: its head, directly followed by its own body.
WholeAt(w, i) ==
  /\ i < Len(w)
  /\ w[i].part = "head"
  /\ w[i + 1].part = "body"
  /\ w[i + 1].frame = w[i].frame

\* Every position, on any session, where a frame of command c starts.
RespHeads(c) ==
  UNION {{<<s, i>> : i \in {j \in 1..Len(wire[s]) :
                              /\ wire[s][j].part = "head"
                              /\ wire[s][j].frame.type = "response"
                              /\ wire[s][j].frame.id = ReqId(c)}} : s \in Sessions}

\* The whole response frames correlated to command c that the client reads.
RespFrames(c) ==
  {i \in 1..Len(ClientWire) :
     /\ WholeAt(ClientWire, i)
     /\ ClientWire[i].frame.type = "response"
     /\ ClientWire[i].frame.id = ReqId(c)}

\* The whole frames of event e that the client reads.
EventFrames(e) ==
  {i \in 1..Len(ClientWire) :
     WholeAt(ClientWire, i) /\ ClientWire[i].frame = EventFrame(e)}

\* Every chunk of w belongs to a whole frame, but for a head written last.
WellFramed(w) ==
  \A i \in 1..Len(w) :
    IF w[i].part = "head"
      THEN i = Len(w) \/ WholeAt(w, i)
      ELSE i > 1 /\ WholeAt(w, i - 1)

Destroyed(c) == resp[c].pc = "destroyed"
WasCalled(c) == called[c] # NoCall
EncodingFailed(c) == called[c].m = "respond" /\ ~Encode(called[c].arg).ok

\* ---------------------------------------------------------------- claims
\* C1: whatever is done with a Responder (any outcome method, with or without
\* encoding or send failure, then its destruction, or destruction alone),
\* never more than one outcome frame for it is written to the client.
C1_AtMostOneOutcome ==
  \A c \in Cmds : Cardinality(RespHeads(c)) <= 1

\* C1 witness: a method was called, its send succeeded, the Responder was
\* destroyed, and exactly one frame is on the wire.
C1_Witness ==
  \E c \in Cmds :
    /\ Destroyed(c) /\ WasCalled(c) /\ ~EncodingFailed(c)
    /\ Cardinality(RespHeads(c)) = 1 /\ Cardinality(RespFrames(c)) = 1

\* C2: over the whole lifecycle of a Responder a dispatch is attempted exactly
\* once: never twice while it lives, and once by the end of its destruction,
\* whether a method was called and encoded, respond failed to encode, or no
\* method was called.
C2_DispatchExactlyOnce ==
  \A c \in Cmds :
    /\ Len(sends[c]) <= 1
    /\ Destroyed(c) => Len(sends[c]) = 1

\* C2 witness: one Responder destroyed after respond failed to encode, another
\* destroyed with no method called, each with its single attempt.
C2_Witness ==
  \E c, d \in Cmds :
    /\ Destroyed(c) /\ EncodingFailed(c) /\ Len(sends[c]) = 1
    /\ Destroyed(d) /\ ~WasCalled(d) /\ Len(sends[d]) = 1

\* C3 as stated: once any of the five outcome methods was called on a
\* Responder and its life has ended, exactly one outcome frame was sent.
C3_Original ==
  \A c \in Cmds : (Destroyed(c) /\ WasCalled(c)) => Cardinality(RespFrames(c)) = 1

\* C3 amended: calling any one of the five outcome methods results in exactly
\* one dispatch attempt, hence exactly one outcome frame when that send
\* succeeds and none when it fails.
C3_OneAttemptOneFrameIfSent ==
  \A c \in Cmds :
    (Destroyed(c) /\ WasCalled(c)) =>
      /\ Len(sends[c]) = 1
      /\ Cardinality(RespFrames(c)) = (IF sends[c][1].ok THEN 1 ELSE 0)
      /\ Cardinality(RespHeads(c)) = Cardinality(RespFrames(c))

\* C3 witness: a method was called, its send failed, and no frame was sent.
C3_Witness ==
  \E c \in Cmds :
    /\ Destroyed(c) /\ WasCalled(c) /\ ~EncodingFailed(c)
    /\ Len(sends[c]) = 1 /\ ~sends[c][1].ok
    /\ RespFrames(c) = {}

\* C4: a Responder destroyed while Pending, no outcome method ever called,
\* gets exactly one dispatch attempt, made by teardown, of kind
\* internal-error; a failure of it is discarded (nothing is returned, nothing
\* is written) and no further dispatch follows.
C4_DropSendsInternalErrorOnce ==
  \A c \in Cmds :
    (Destroyed(c) /\ ~WasCalled(c)) =>
      /\ Len(sends[c]) = 1
      /\ sends[c][1].kind = "InternalError"
      /\ sends[c][1].inDrop
      /\ ret[c] = "none"
      /\ ~sends[c][1].ok => RespHeads(c) = {}
      /\ sends[c][1].ok =>
           \E i \in RespFrames(c) : ClientWire[i].frame.kind = "InternalError"

\* C4 witness: dropped with no call, and the fallback send failed.
C4_Witness ==
  \E c \in Cmds :
    /\ Destroyed(c) /\ ~WasCalled(c)
    /\ Len(sends[c]) = 1 /\ ~sends[c][1].ok

\* C5: when respond is given a value whose encoding fails, the outcome
\* dispatched for the Responder is internal-error, never a success frame and
\* never nothing; and when the send of it succeeds, respond returns no error.
C5_EncodeFailureBecomesInternalError ==
  \A c \in Cmds :
    EncodingFailed(c) =>
      /\ \A i \in 1..Len(sends[c]) : sends[c][i].kind = "InternalError"
      /\ \A p \in RespHeads(c) : wire[p[1]][p[2]].frame.kind = "InternalError"
      /\ Destroyed(c) =>
           /\ Len(sends[c]) = 1
           /\ sends[c][1].ok =>
                /\ ret[c] = "Ok"
                /\ \E i \in RespFrames(c) : ClientWire[i].frame.kind = "InternalError"

\* C5 witness: respond failed to encode, the internal-error was sent and
\* written, and respond returned Ok.
C5_Witness ==
  \E c \in Cmds :
    /\ Destroyed(c) /\ EncodingFailed(c)
    /\ sends[c] = <<[kind |-> "InternalError", ok |-> TRUE, inDrop |-> TRUE]>>
    /\ ret[c] = "Ok"
    /\ RespFrames(c) # {}

\* C6 as stated: for every command for which a Responder was created, once
\* that Responder's life has ended a response frame correlated to the command
\* is on the wire.
C6_Original ==
  \A c \in Cmds : Destroyed(c) => RespFrames(c) # {}

\* C6 amended: for every command for which a Responder was created, by the end
\* of that Responder's life a response correlated to the command has been
\* dispatched once, and its frame is on the client's wire if that send
\* succeeded; if the send failed the client receives no response frame.
C6_ResponseUnlessSendFails ==
  \A c \in Cmds :
    Destroyed(c) =>
      /\ Len(sends[c]) = 1
      /\ sends[c][1].ok => Cardinality(RespFrames(c)) = 1
      /\ ~sends[c][1].ok => RespFrames(c) = {}
      /\ \A d \in Cmds : d # c => RespFrames(c) \cap RespFrames(d) = {}

\* C6 witness: the handler dropped one Responder and called a method on the
\* other; both sends succeeded and both frames are on the wire.
C6_Witness ==
  \E c, d \in Cmds :
    /\ Destroyed(c) /\ ~WasCalled(c) /\ sends[c][1].ok /\ RespFrames(c) # {}
    /\ Destroyed(d) /\ WasCalled(d) /\ sends[d][1].ok /\ RespFrames(d) # {}

Claimers == {i \in 1..Len(dCands) : Recognizes(dCands[i], command_name(dOrig))}

\* No further candidate will be offered the command.
DispatchDone == dResult.tag = "Ok" \/ Len(dTried) = Len(dCands)

\* C7: deserialize_command::<C> returns Ok with C's decode outcome (a typed
\* value or a decode error) exactly when C recognizes command_name(), and
\* otherwise Err carrying the Encoded Command with the name and the payload it
\* was received with.
C7_OkIffRecognized ==
  dTried # <<>> =>
    LET C == dTried[Len(dTried)]
    IN /\ (dResult.tag = "Ok") <=> Recognizes(C, command_name(dOrig))
       /\ dResult.tag \in {"Ok", "Err"}
       /\ dResult.tag = "Ok" =>
            /\ dResult.ty = C
            /\ dResult.name = dOrig.name
            /\ dResult.ok <=> (dOrig.name # "Page.navigate" \/ dOrig.payload = "{url}")
       /\ dResult.tag = "Err" =>
            /\ dResult.name = dOrig.name
            /\ dResult.payload = dOrig.payload
            /\ dCmd = dOrig

\* C7 witness: the first candidate gave the command back and the second one
\* claimed it and failed to decode its payload.
C7_Witness ==
  /\ Len(dTried) = 2
  /\ ~Recognizes(dTried[1], dOrig.name)
  /\ dResult.tag = "Ok" /\ ~dResult.ok

\* C8: for every sequence of candidate types offered to one Encoded Command,
\* exactly one of {a type claims the name and yields a decode result, no type
\* claims the name} holds; the attempts are made in the order offered, up to
\* the first type that recognizes the name, and after each non-claiming
\* attempt the caller holds the command unmodified.
C8_FirstClaimerOrNone ==
  /\ Len(dTried) <= Len(dCands)
  /\ \A i \in 1..Len(dTried) : dTried[i] = dCands[i]
  /\ dResult.tag # "Ok" =>
       /\ dCmd = dOrig
       /\ \A i \in 1..Len(dTried) : i \notin Claimers
  /\ dResult.tag = "Ok" =>
       /\ Len(dTried) \in Claimers
       /\ \A i \in Claimers : Len(dTried) <= i
       /\ dResult.ty = dCands[Len(dTried)]
  /\ DispatchDone => ((dResult.tag = "Ok") <=> (Claimers # {}))

\* C8 witness: two candidates gave the command back, and the sequence ended
\* with no type claiming it.
C8_Witness ==
  /\ Len(dCands) >= 2
  /\ Len(dTried) = Len(dCands)
  /\ dResult.tag = "Err"
  /\ dCmd = dOrig

\* ------------------------------------------------------------ event views
\* Every position of the client's wire where a frame of event e starts.
EventHeads(e) ==
  {i \in 1..Len(ClientWire) :
     ClientWire[i].part = "head" /\ ClientWire[i].frame = EventFrame(e)}

\* The whole event frames the client reads, whatever event they carry.
AllEventFrames ==
  {i \in 1..Len(ClientWire) :
     WholeAt(ClientWire, i) /\ ClientWire[i].frame.type = "event"}

AllEventsReturned == \A e \in Events : evRet[e] # "none"

\* C10 as stated: once the N events have all been sent from the clones,
\* exactly N event frames are on the wire.
C10_Original ==
  AllEventsReturned => Cardinality(AllEventFrames) = MaxEvents

\* C10 amended: sending N events in total from M concurrently used clones, in
\* any interleaving, results in exactly one whole event frame for each send
\* that succeeded and none for a send that failed (so exactly N when no send
\* fails); no frame is duplicated, or interleaved with part of another event
\* or response frame.
C10_OneWholeFramePerSentEvent ==
  /\ \A s \in Sessions : WellFramed(wire[s])
  /\ \A e \in Events :
       /\ Cardinality(EventHeads(e)) <= 1
       /\ Cardinality(EventFrames(e)) = (IF evRet[e] = "Ok" THEN 1 ELSE 0)
       /\ evRet[e] = "DispatchError" => EventHeads(e) = {}
  /\ Cardinality(AllEventFrames) = Cardinality({e \in Events : evRet[e] = "Ok"})

\* C10 witness: all events were sent, from two different clones, one send
\* failed, and a response frame lies between two event frames.
C10_Witness ==
  /\ AllEventsReturned
  /\ \E e, f \in Events : evFrom[e] # evFrom[f] /\ evRet[e] = "Ok" /\ evRet[f] = "Ok"
  /\ \E e \in Events : evRet[e] = "DispatchError"
  /\ \E i, j, k \in 1..Len(ClientWire) :
       /\ i < j /\ j < k
       /\ i \in AllEventFrames /\ k \in AllEventFrames
       /\ ClientWire[j].frame.type = "response"

\* C11: when encoding and send succeed, each explicit outcome method
\* dispatches the outcome kind of its own name and nothing else: respond gives
\* Success with the encoded payload, command_not_found gives CommandNotFound,
\* invalid_params(m) gives InvalidParams carrying exactly m, server_error(m)
\* gives ServerError carrying exactly m, internal_error gives InternalError
\* with no message.
C11_MethodDispatchesOwnOutcome ==
  \A c \in Cmds :
    (WasCalled(c) /\ ~EncodingFailed(c) /\ Len(sends[c]) >= 1 /\ sends[c][1].ok) =>
      LET m == called[c].m
          a == called[c].arg
          kind == CASE m = "respond" -> "Success"
                    [] m = "command_not_found" -> "CommandNotFound"
                    [] m = "invalid_params" -> "InvalidParams"
                    [] m = "server_error" -> "ServerError"
                    [] OTHER -> "InternalError"
          data == CASE m = "respond" -> "{" \o a \o "}"
                    [] m \in {"invalid_params", "server_error"} -> a
                    [] OTHER -> ""
      IN /\ \A i \in 1..Len(sends[c]) : sends[c][i].kind = kind
         /\ \A p \in RespHeads(c) :
              /\ wire[p[1]][p[2]].frame.kind = kind
              /\ wire[p[1]][p[2]].frame.data = data
         /\ Destroyed(c) =>
              \E i \in RespFrames(c) :
                ClientWire[i].frame.kind = kind /\ ClientWire[i].frame.data = data

\* C11 witness: invalid_params("missing field: url") on one Responder and
\* respond on the other, both sent, both frames on the wire as called.
C11_Witness ==
  \E c, d \in Cmds :
    /\ Destroyed(c) /\ called[c] = [m |-> "invalid_params", arg |-> "missing field: url"]
    /\ \E i \in RespFrames(c) :
         /\ ClientWire[i].frame.kind = "InvalidParams"
         /\ ClientWire[i].frame.data = "missing field: url"
    /\ Destroyed(d) /\ called[d] = [m |-> "respond", arg |-> "frame_id:7"]
    /\ \E i \in RespFrames(d) :
         /\ ClientWire[i].frame.kind = "Success"
         /\ ClientWire[i].frame.data = "{frame_id:7}"

\* C12: once an outcome method has attempted its dispatch, whether the send
\* succeeded or failed, the Responder is Completed and its teardown attempts
\* no internal-error dispatch; a Responder only ever goes from Pending to
\* Completed, never back, and is Completed by the end of its life.
C12_PendingToCompletedOnce ==
  /\ [](\A c \in Cmds :
          /\ StateOf(resp[c]) = "Completed" <=> Len(sends[c]) >= 1
          /\ (Len(sends[c]) >= 1 /\ ~sends[c][1].inDrop) =>
               \A i \in 1..Len(sends[c]) : ~sends[c][i].inDrop
          /\ Destroyed(c) => StateOf(resp[c]) = "Completed")
  /\ [][\A c \in Cmds :
          StateOf(resp[c]) = "Completed" =>
            /\ StateOf(resp'[c]) = "Completed"
            /\ sends'[c] = sends[c]]_vars

\* C12 witness: one method's send failed, another's succeeded; both
\* Responders were torn down, each Completed with its single attempt, made by
\* the method.
C12_Witness ==
  \E c, d \in Cmds :
    /\ Destroyed(c) /\ StateOf(resp[c]) = "Completed"
    /\ Len(sends[c]) = 1 /\ ~sends[c][1].inDrop /\ ~sends[c][1].ok
    /\ Destroyed(d) /\ StateOf(resp[d]) = "Completed"
    /\ Len(sends[d]) = 1 /\ ~sends[d][1].inDrop /\ sends[d][1].ok

\* Every position, on any session, where a response frame starts.
AllRespHeads ==
  UNION {{<<s, i>> : i \in {j \in 1..Len(wire[s]) :
                              /\ wire[s][j].part = "head"
                              /\ wire[s][j].frame.type = "response"}} : s \in Sessions}

\* The sends of command c's Responder that went through.
SentOk(c) == {i \in 1..Len(sends[c]) : sends[c][i].ok}

\* C13: with several commands in flight on one session, their Responders
\* completed in any order, every response frame on the wire carries the
\* request identifier of the command its Responder was created for (each
\* Responder's successful send is the one frame with its command's
\* identifier and its outcome kind, on the client's session, and there is no
\* other response frame), and no two response frames carry the same
\* identifier.
C13_FramesCorrelatedToOwnCommand ==
  /\ \A c \in Cmds :
       /\ resp[c].pc # "absent" => resp[c].id = ReqId(c)
       /\ Cardinality(RespHeads(c)) = Cardinality(SentOk(c))
       /\ \A p \in RespHeads(c) :
            /\ p[1] = session
            /\ \E i \in SentOk(c) : wire[p[1]][p[2]].frame.kind = sends[c][i].kind
  /\ AllRespHeads = UNION {RespHeads(c) : c \in Cmds}
  /\ \A p, q \in AllRespHeads :
       p # q => wire[p[1]][p[2]].frame.id # wire[q[1]][q[2]].frame.id

\* C13 witness: both commands were in flight together and answered in the
\* reverse order, with different outcomes; both frames are whole on the wire.
C13_Witness ==
  /\ MaxCmds >= 2
  /\ Destroyed(1) /\ Destroyed(2)
  /\ \E i \in RespFrames(1), j \in RespFrames(2) :
       /\ j < i
       /\ ClientWire[i].frame.kind # ClientWire[j].frame.kind
       /\ ClientWire[i].frame.id = ReqId(1)
       /\ ClientWire[j].frame.id = ReqId(2)

\* The candidates tried so far that recognize the command's name, that is,
\* that went on to decode its payload.
TriedClaimers == {i \in 1..Len(dTried) : Recognizes(dTried[i], command_name(dOrig))}

\* C14: the payload of an Encoded Command is consumed at most once: once a
\* candidate type has claimed the name (Ok, with a typed value or with a decode
\* error), the command has moved into it, dispatch stops and no later
\* candidate is offered the command; a decode error on a matched name is Ok
\* of the error, not a non-match.
C14_PayloadConsumedAtMostOnce ==
  /\ [](/\ Cardinality(TriedClaimers) <= 1
        /\ TriedClaimers # {} =>
             /\ dResult.tag = "Ok"
             /\ dCmd = NoCommand
             /\ TriedClaimers = {Len(dTried)}
             /\ dResult.ok <=> (dOrig.name # "Page.navigate" \/ dOrig.payload = "{url}"))
  /\ [][dResult.tag = "Ok" => UNCHANGED <<dTried, dResult, dCmd>>]_vars

\* C14 witness: a candidate claimed the name and failed to decode the payload
\* while a later candidate that recognizes the same name was never offered it.
C14_Witness ==
  /\ dResult.tag = "Ok" /\ ~dResult.ok
  /\ dCmd = NoCommand
  /\ Len(dTried) < Len(dCands)
  /\ \E i \in (Len(dTried) + 1)..Len(dCands) : Recognizes(dCands[i], dOrig.name)

\* Where on the client's wire the frame of send a starts.
HeadPos(a) ==
  {i \in 1..Len(ClientWire) :
     /\ ClientWire[i].part = "head"
     /\ IF a[1] = "response"
          THEN ClientWire[i].frame.type = "response" /\ ClientWire[i].frame.id = ReqId(a[2])
          ELSE ClientWire[i].frame = EventFrame(a[2])}

EventStep == nextEv' # nextEv \/ evRet' # evRet

\* C16: send_event, on any clone and whether it succeeds or fails, leaves
\* every Responder as it was (Pending stays Pending, Completed stays
\* Completed; nothing is dispatched or returned for it), also while a command
\* is in flight; and every clone of the Event Sender addresses the same client
\* session as the handle it was cloned from, so events reach no other session.
C16_EventsApartFromResponders ==
  /\ [][EventStep =>
          /\ UNCHANGED <<resp, sends, ret, called>>
          /\ \A c \in Cmds : StateOf(resp'[c]) = StateOf(resp[c])]_vars
  /\ [](/\ \A h \in Handles : sender[h].live => sender[h].session = session
        /\ \A s \in Sessions : s # session => wire[s] = <<>>)

\* C16 witness: a response method had been called and its Responder was still
\* Pending when an event was sent, whole, from a clone; another send_event
\* failed meanwhile.
C16_Witness ==
  /\ resp[1].pc = "dispatch" /\ StateOf(resp[1]) = "Pending"
  /\ Len(issued) >= 2 /\ issued[1] = RespSend(1)
  /\ \E e \in Events :
       /\ evRet[e] = "Ok" /\ evFrom[e] # 1
       /\ EventFrames(e) # {}
  /\ \E e \in Events : evRet[e] = "DispatchError"

\* Every position, on any session, where a frame of event e starts.
AnyEventHeads(e) ==
  UNION {{<<s, i>> : i \in {j \in 1..Len(wire[s]) :
                              /\ wire[s][j].part = "head"
                              /\ wire[s][j].frame = EventFrame(e)}} : s \in Sessions}

\* How many times the send of event e was issued.
TimesIssued(e) == Cardinality({i \in 1..Len(issued) : issued[i] = EvSend(e)})

\* C17: when the send fails, send_event returns a dispatch error, no frame of
\* that event is put on the wire, and no second attempt or fallback send is
\* made; the handle stays usable, and later send_event calls on the same or
\* another clone succeed or fail on their own.
C17_FailedEventSendLeavesNothing ==
  \A e \in Events :
    /\ TimesIssued(e) <= 1
    /\ evRet[e] # "none" =>
         /\ TimesIssued(e) = 1
         /\ evRet[e] = "DispatchError" <=> AnyEventHeads(e) = {}
         /\ evRet[e] = "Ok" <=> Cardinality(EventFrames(e)) = 1
         /\ sender[evFrom[e]].live
         /\ sender[evFrom[e]].ev # e

\* C17 witness: a send_event failed, and after it one on the same handle and
\* one on another clone both put their whole frames on the wire.
C17_Witness ==
  \E e, f, g \in Events :
    /\ e < f /\ e < g /\ f # g
    /\ evRet[e] = "DispatchError" /\ AnyEventHeads(e) = {}
    /\ evFrom[f] = evFrom[e] /\ evRet[f] = "Ok" /\ EventFrames(f) # {}
    /\ evFrom[g] # evFrom[e] /\ evRet[g] = "Ok" /\ EventFrames(g) # {}

\* The response frames of command c, whole, as the client reads them, with the
\* correlation identifier taken out.
FramesSansId(c) == {[ClientWire[i].frame EXCEPT !.id = 0] : i \in RespFrames(c)}

\* C18: the response frame the client observes when respond failed to encode
\* its value is the same as the one it observes when the Responder was dropped
\* with no outcome call: the internal-error outcome, without message, under
\* the correlation identifier of the command; nothing in the response tells
\* the two causes apart.
C18_EncodeFailureLooksLikeDrop ==
  /\ \A c \in Cmds :
       (EncodingFailed(c) \/ (~WasCalled(c) /\ resp[c].pc # "absent")) =>
         /\ \A p \in RespHeads(c) :
              wire[p[1]][p[2]].frame = ResponseFrame(ReqId(c), [kind |-> "InternalError", data |-> ""])
         /\ \A i \in 1..Len(sends[c]) : sends[c][i].kind = "InternalError" /\ sends[c][i].inDrop
  /\ \A c, d \in Cmds :
       (EncodingFailed(c) /\ ~WasCalled(d) /\ RespFrames(c) # {} /\ RespFrames(d) # {}) =>
         FramesSansId(c) = FramesSansId(d)

\* C18 witness: one Responder's respond failed to encode, the other was
\* dropped with no call; both internal-error frames are on the wire.
C18_Witness ==
  \E c, d \in Cmds :
    /\ Destroyed(c) /\ EncodingFailed(c) /\ RespFrames(c) # {}
    /\ Destroyed(d) /\ ~WasCalled(d) /\ RespFrames(d) # {}
    /\ FramesSansId(c) = FramesSansId(d)
    /\ Cardinality(FramesSansId(c)) = 1
====
